---- MODULE Spec2Model ----
(***************************************************************************)
(* The sentinel review sub-pipeline of the swarm engine, as installed by   *)
(* specs/patches/apply-sentinel-polling.py: the review dispatch at the end *)
(* of _pollOnce, executeSentinelReview, mergePR and the transition         *)
(* operations over the ticket store; and the surgical-edit functions of    *)
(* the coder agent, as installed by specs/patches/apply-surgical-edits.py: *)
(* writeFiles and fetchExistingFileContent.                                *)
(*                                                                         *)
(* The engine is single-threaded JavaScript: an action of the model is one *)
(* awaited call taking effect, followed by the synchronous code that runs  *)
(* up to the next await.  Strings are sequences of tokens, so that         *)
(* String.includes and the PR-URL pattern are computed, not assumed.       *)
(***************************************************************************)
EXTENDS Integers, Sequences, FiniteSets, TLC

\* ------------------------------------------------------------------ bounds
NumTickets == 2
MaxExec == 2
MaxFaults == 2
MaxAvailable == 2
MaxDispatched == 1

Tickets == 1..NumTickets
Execs == 1..MaxExec

VARIABLES
    tickets,        \* the tickets table: ticket id -> row
    events,         \* the audit log, per ticket: sequence of event records
    notified,       \* notifyTicketStateChange calls: set of <<ticket, state>>
    logged,         \* '[STATE] Ticket .. -> ..' log lines: set of <<ticket, state>>
    ex,             \* executeSentinelReview invocations: exec id -> frame
    lpc,            \* position of the review polling block of _pollOnce
    reviewTickets,  \* rows returned by getReviewTickets in this cycle
    available,      \* _pollOnce local: free execution slots
    dispatched,     \* _pollOnce local: tickets dispatched so far in this cycle
    shuttingDown,   \* this.shuttingDown
    launched,       \* number of executeSentinelReview invocations started
    faultsLeft,     \* faults the collaborators may still raise
    faulted,        \* tickets on which a store/notify/event/lookup/verifier call raised
    fsFiles,        \* the checkout: path -> content of the file, if it exists
    fsDirs,         \* the checkout: directories that exist
    wf,             \* the writeFiles call: its locals and position
    wlog,           \* log lines of writeFiles: set of <<level, message, path>>
    ff,             \* the fetchExistingFileContent call: arguments and result
    bp,             \* buildPrompt's files section: its inputs and locals
    ep              \* apply_patch: the engine file, its backup, the locals

\* the state of the coder agent's file functions
EditVars == <<fsFiles, fsDirs, wf, wlog, ff, bp, ep>>

\* the state of the review sub-pipeline
ReviewVars == <<tickets, events, notified, logged, ex, lpc, reviewTickets,
                available, dispatched, shuttingDown, launched, faultsLeft, faulted>>

vars == <<tickets, events, notified, logged, ex, lpc, reviewTickets,
          available, dispatched, shuttingDown, launched, faultsLeft, faulted,
          fsFiles, fsDirs, wf, wlog, ff, bp, ep>>

\* ------------------------------------------------------------ text helpers
Max(a, b) == IF a >= b THEN a ELSE b
Min(a, b) == IF a <= b THEN a ELSE b

\* String.prototype.includes on token sequences
Includes(s, p) ==
    \E i \in 0..(Len(s) - Len(p)) : \A j \in 1..Len(p) : s[i + j] = p[j]

AlreadyBeenMerged == <<"already", "been", "merged">>

\* thrown error objects: message and (for execSync) captured stderr
Err(m) == [message |-> m, stderr |-> <<>>]
StoreError == Err(<<"store", "query", "failed">>)
NotifyError == Err(<<"notify", "failed">>)
EventError == Err(<<"event", "insert", "failed">>)
RepoLookupError == Err(<<"repo", "lookup", "failed">>)
VerifierError == Err(<<"verifier", "unavailable">>)

\* ticket.pr_url values: absent, matching the pattern, not matching it
NoPrUrl == <<>>
GoodPrUrl == <<"https:", "github.com", "acme", "widgets", "pull", "42">>
BadPrUrl == <<"https:", "github.com", "acme", "widgets", "issues", "42">>
PrUrls == {NoPrUrl, GoodPrUrl, BadPrUrl}
Digits == {"42", "7"}

\* the pattern without its /pull/<number> part
MatchPrUrlAnyPath(u) == \E i \in 1..Len(u) : u[i] = "github.com"

\* prUrl.match(/github\.com\/([^\/]+)\/([^\/]+)\/pull\/(\d+)/)
MatchPrUrl(u) ==
    \E i \in 1..Len(u) :
        /\ i + 4 <= Len(u)
        /\ u[i] = "github.com"
        /\ u[i + 3] = "pull"
        /\ u[i + 4] \in Digits

\* outcomes of execSync(mergeCmd): success, or a thrown error
MergeOk == Err(<<"ok">>)
NotRun == Err(<<"not", "run">>)
MergeErrors ==
    { [message |-> <<"Command", "failed:", "gh", "pr", "merge">>,
       stderr  |-> <<"Pull", "request", "has", "already", "been", "merged">>],
      [message |-> <<"Pull", "request", "has", "already", "been", "merged">>,
       stderr  |-> <<>>],
      [message |-> <<"Command", "failed:", "gh", "pr", "merge">>,
       stderr  |-> <<"Pull", "request", "is", "not", "mergeable">>],
      [message |-> <<"spawnSync", "ETIMEDOUT">>,
       stderr  |-> <<>>] }
MergeOutcomes == {MergeOk} \cup MergeErrors

\* the test of line 196 without its second operand
IsAlreadyMergedMessageOnly(err) == Includes(err.message, AlreadyBeenMerged)

\* the test of line 196
IsAlreadyMerged(err) ==
    \/ Includes(err.message, AlreadyBeenMerged)
    \/ Includes(err.stderr, AlreadyBeenMerged)

\* failure reasons handed to setSentinelFailed
NoPrUrlFound == <<"No", "PR", "URL", "found">>
MergeFailed(m) == <<"Merge", "failed:">> \o m
InvalidPrUrl(u) == <<"Invalid", "PR", "URL:">> \o u
VerifyStatuses == {"passed", "failed", "error"}
JsonStringify(status) == <<"{status:", status, "}">>

\* --------------------------------------------------------- the tickets table
NULL == <<>>
Now == <<NumTickets + 1>>
ReviewSlot == <<-1>>
RealVm == <<7>>
SentinelAgent == "sentinel-agent"

Terminal == {"merged", "sentinel_failed"}

Row(assignee, atype, vm, stamp) ==
    [state |-> "in_review", assignee_id |-> assignee, assignee_type |-> atype,
     vm_id |-> vm, updated_at |-> <<stamp>>, last_heartbeat |-> NULL,
     merged_at |-> NULL, verification_status |-> NULL]

\* tickets as the verification gate leaves them: in_review, either waiting
\* for the sentinel, handed to a human reviewer, or still bound to a VM
InitialRows ==
    { Row(SentinelAgent, "agent", NULL, s) : s \in 1..NumTickets }
      \cup { Row("human-1", "human", NULL, 1), Row(SentinelAgent, "agent", RealVm, 1) }

\* ticket ids are handed out in the order the tickets were last updated
InitialTables ==
    { f \in [Tickets -> InitialRows] :
        \A t, u \in Tickets : t < u => f[t].updated_at[1] <= f[u].updated_at[1] }

\* WHERE clause of getReviewTickets
IsReviewCandidate(row) ==
    /\ row.state = "in_review"
    /\ row.assignee_id = SentinelAgent
    /\ row.assignee_type = "agent"
    /\ row.vm_id = NULL

\* ORDER BY updated_at ASC: is sequence s of ticket ids in that order
OrderedByUpdatedAt(s) ==
    \A i, j \in 1..Len(s) :
        i < j => tickets[s[i]].updated_at[1] <= tickets[s[j]].updated_at[1]

\* the rows of ORDER BY updated_at DESC LIMIT n
NewestRows(c, n) ==
    { s \in UNION { [1..k -> c] : k \in {Min(n, Cardinality(c))} } :
        /\ \A i, j \in 1..Len(s) : i # j => s[i] # s[j]
        /\ \A i, j \in 1..Len(s) :
              i < j => tickets[s[i]].updated_at[1] >= tickets[s[j]].updated_at[1]
        /\ \A t \in c : (\A i \in 1..Len(s) : s[i] # t) =>
              \A i \in 1..Len(s) :
                  tickets[s[i]].updated_at[1] >= tickets[t].updated_at[1] }

\* the rows that ORDER BY updated_at ASC LIMIT n may select from set c
FirstRows(c, n) ==
    { s \in UNION { [1..k -> c] : k \in {Min(n, Cardinality(c))} } :
        /\ \A i, j \in 1..Len(s) : i # j => s[i] # s[j]
        /\ OrderedByUpdatedAt(s)
        /\ \A t \in c : (\A i \in 1..Len(s) : s[i] # t) =>
              \A i \in 1..Len(s) :
                  tickets[s[i]].updated_at[1] <= tickets[t].updated_at[1] }

\* getReviewTickets(limit): the possible results of the query
getReviewTickets(limit) ==
    FirstRows({ t \in Tickets : IsReviewCandidate(tickets[t]) }, limit)

\* the claim without its state guard
ClaimGuardAnyState(row) == row.assignee_id = SentinelAgent

\* WHERE clause of the UPDATE in atomicClaimReviewTicket
ClaimGuard(row) ==
    /\ row.state = "in_review"
    /\ row.assignee_id = SentinelAgent

\* the claim without its slot marker
ClaimedRowUnbound(row) ==
    [row EXCEPT !.state = "reviewing", !.last_heartbeat = Now, !.updated_at = Now]

\* SET clause of the UPDATE in atomicClaimReviewTicket
ClaimedRow(row) ==
    [row EXCEPT !.state = "reviewing", !.vm_id = ReviewSlot,
                !.last_heartbeat = Now, !.updated_at = Now]

\* setMerged without its merged_at stamp
MergedRowNoStamp(row) ==
    [row EXCEPT !.state = "merged", !.vm_id = NULL, !.updated_at = Now]

\* SET clause of the UPDATE in setMerged
MergedRow(row) ==
    [row EXCEPT !.state = "merged", !.vm_id = NULL,
                !.merged_at = Now, !.updated_at = Now]

\* SET clause of the UPDATE in setSentinelFailed
SentinelFailedRow(row) ==
    [row EXCEPT !.state = "sentinel_failed", !.vm_id = NULL,
                !.verification_status = <<"sentinel_rejected">>,
                !.updated_at = Now]

Event(type, from, to, payload) ==
    [type |-> type, from_state |-> from, to_state |-> to, payload |-> payload]
\* an event other than the sentinel_started event of line 53
SentinelStartedMisnamed == Event("sentinel_done", "reviewing", "reviewing", <<>>)
SentinelStartedEvent == Event("sentinel_started", "in_review", "reviewing", <<>>)
MergedEvent(prUrl) == Event("merged", "reviewing", "merged", prUrl)
SentinelFailedEvent(reason) ==
    Event("sentinel_failed", "reviewing", "sentinel_failed", reason)

\* ---------------------------------------------- the coder agent's checkout
MaxContentLen == 2
MaxSearchLen == 1
MaxReplaceLen == 1
MaxPatches == 2
MaxFiles == 2
MaxLines == 8
MaxBudget == 6
MaxTargets == 2
MaxRuns == 2

\* text is a sequence of tokens; DollarDollar stands for the two characters
\* $$, which String.prototype.replace reads as an escape for one $
Words == {"foo", "bar", "baz"}
DollarDollar == "$$"
Dollar == "$"
Alphabet == Words \cup {DollarDollar}
Texts(alphabet, n) == UNION { [1..k -> alphabet] : k \in 0..n }

\* an optional value: undefined, or present
Undefined == <<>>
Some(v) == <<v>>

\* a patch record: search and replace, either of which may be missing
Patches ==
    [search : {Undefined} \cup { Some(s) : s \in Texts(Words, MaxSearchLen) },
     replace : {Undefined} \cup { Some(r) : r \in Texts(Alphabet, MaxReplaceLen) }]
PatchLists == UNION { [1..k -> Patches] : k \in 0..MaxPatches }

\* paths relative to repoDir, and path.dirname of the joined path
RepoDir == "."
Paths == {"a.js", "lib/b.js"}
Dirname(p) == IF p = "lib/b.js" THEN "lib" ELSE RepoDir

\* fs.existsSync(filePath)
NoFile == <<>>
ExistsSync(files, p) == files[p] # NoFile

\* the file records handed to writeFiles: a modify edit with a patches
\* array, or a record without one (create, or modify with content only)
NewContent == <<"baz", "foo">>
SurgicalEdits(n) ==
    [path : Paths, action : {"modify"},
     patches : { Some(l) : l \in UNION { [1..k -> Patches] : k \in 0..n } },
     content : {Undefined}]
WholeFileEdits ==
    [path : Paths, action : {"create", "modify"},
     patches : {Undefined}, content : {Undefined, Some(NewContent)}]
FileEdits == SurgicalEdits(MaxPatches) \cup WholeFileEdits
NoEdit == [path |-> "a.js", action |-> "create", patches |-> Undefined,
           content |-> Undefined]

\* the checkouts writeFiles may find: a.js absent or with any content, the
\* directory lib absent, empty, or holding b.js
FileContents == Texts(Words, MaxContentLen)
InitialCheckouts ==
    { c \in { [files |-> [p \in Paths |-> IF p = "a.js" THEN a ELSE b], dirs |-> d] :
                a \in {NoFile} \cup { Some(x) : x \in FileContents },
                b \in {NoFile, Some(<<"foo">>)},
                d \in {{RepoDir}, {RepoDir, "lib"}} } :
        \A p \in Paths : ExistsSync(c.files, p) => Dirname(p) \in c.dirs }

\* String.prototype.indexOf, as an offset from 0; -1 when p is not in s
IndexOf(s, p) ==
    IF Includes(s, p)
    THEN CHOOSE i \in 0..(Len(s) - Len(p)) :
            /\ \A j \in 1..Len(p) : s[i + j] = p[j]
            /\ \A k \in 0..(i - 1) : \E j \in 1..Len(p) : s[k + j] # p[j]
    ELSE -1

\* fileContent.split(patch.search).length - 1
RECURSIVE Occurrences(_, _)
Occurrences(s, p) ==
    IF p = <<>> THEN Len(s) - 1
    ELSE IF ~Includes(s, p) THEN 0
    ELSE 1 + Occurrences(SubSeq(s, IndexOf(s, p) + Len(p) + 1, Len(s)), p)

\* the replacement text as String.prototype.replace inserts it: $$ becomes $
GetSubstitution(r) ==
    [i \in 1..Len(r) |-> IF r[i] = DollarDollar THEN Dollar ELSE r[i]]

\* fileContent.replace(patch.search, patch.replace) with a string pattern
Replace(s, p, r) ==
    IF ~Includes(s, p) THEN s
    ELSE LET i == IndexOf(s, p) IN
         SubSeq(s, 1, i) \o GetSubstitution(r) \o SubSeq(s, i + Len(p) + 1, Len(s))

\* the test of line 99 with an empty search string let through
IsInvalidPatchUnlessEmpty(p) == p.search = Undefined \/ p.replace = Undefined

\* !patch.search || patch.replace === undefined
IsInvalidPatch(p) ==
    \/ p.search = Undefined
    \/ p.search = Some(<<>>)
    \/ p.replace = Undefined

\* the content a patch is matched against, were it the file as read
PatchedContentOfOriginal(original, current) == original

\* the content a patch is matched against: fileContent as the patches
\* before it left it
PatchedContent(original, current) == current

\* the test of line 121 taken as always true
WriteBackAlways(n) == TRUE

\* patchesApplied > 0
WriteBackWanted(n) == n > 0

\* file.action === 'modify' && file.patches && Array.isArray(file.patches)
IsSurgical(file) == file.action = "modify" /\ file.patches # Undefined

\* what String(undefined) writes
UndefinedText == <<"undefined">>

\* the locals of writeFiles
IdleWrite ==
    [pc |-> "idle", left |-> 0, budget |-> 0, file |-> NoEdit,
     original |-> <<>>, fileContent |-> <<>>, patchesApplied |-> 0, i |-> 0,
     written |-> <<>>, order |-> <<>>]

\* the lines of a file: line k of the file is the number k
FileLines(n) == [k \in 1..n |-> [kind |-> "line", n |-> k]]
Blank == [kind |-> "blank", n |-> 0]
Marker(n) == [kind |-> "marker", n |-> n]

\* Array.prototype.slice(start, end) and slice(start)
Slice(a, start, end) ==
    SubSeq(a, Min(start, Len(a)) + 1, Min(end, Len(a)))
SliceFrom(a, start) ==
    SubSeq(a, (IF start < 0 THEN Max(Len(a) + start, 0) ELSE Min(start, Len(a))) + 1,
           Len(a))

\* the whole budget taken at each end
WholeOf(maxLines) == maxLines

\* Math.floor(maxLines / 2)
HalfOf(maxLines) == maxLines \div 2

\* Array.prototype.join('\n'), as the lines of the joined text
Join(a) == IF a = <<>> THEN <<Blank>> ELSE a

\* lines 36-44: the text returned for a file that exists
Truncated(lines, maxLines) ==
    IF Len(lines) > maxLines
    THEN Join(Slice(lines, 0, HalfOf(maxLines)))
            \o <<Blank, Marker(Len(lines) - maxLines), Blank>>
            \o Join(SliceFrom(lines, 0 - HalfOf(maxLines)))
    ELSE lines

\* the arguments and result of fetchExistingFileContent
IdleFetch ==
    [pc |-> "idle", exists |-> FALSE, lines |-> 0, maxLines |-> 0, result |-> NULL]

\* ------------------------------------------------------------ buildPrompt
\* a value of ctx.files_to_create or ctx.files_to_modify: an array of
\* paths, or a string (its length is positive, it has no map method)
Arr(items) == [isArray |-> TRUE, items |-> items]
Str(items) == [isArray |-> FALSE, items |-> items]
EmptyArray == Arr(<<>>)

\* the arrays of paths the lists and the hints are drawn from
TargetLists == Texts(Paths, MaxTargets)

\* the values a field of the context holds: missing, an array, a string
FieldValues ==
    {Undefined} \cup { Some(Arr(l)) : l \in TargetLists } \cup {Some(Str(<<"a.js">>))}

\* the structured contexts
Contexts == [files_to_create : FieldValues, files_to_modify : FieldValues]

\* the serialised form of a field and of a context, as tokens
StringifyField(key, v) ==
    IF v = Undefined THEN <<>>
    ELSE IF v[1].isArray THEN <<key, "[">> \o v[1].items \o <<"]">>
    ELSE <<key, "'">> \o v[1].items \o <<"'">>

StringifyContext(c) ==
    <<"{">> \o StringifyField("files_to_create", c.files_to_create)
            \o StringifyField("files_to_modify", c.files_to_modify) \o <<"}">>

\* the first position of a token at or after position from, 0 when there is none
Position(text, tok, from) ==
    IF \E k \in from..Len(text) : text[k] = tok
    THEN CHOOSE k \in from..Len(text) :
            text[k] = tok /\ \A j \in from..(k - 1) : text[j] # tok
    ELSE 0

\* the value read for a key of a serialised object
ParseField(text, key) ==
    LET k == Position(text, key, 1) IN
    IF k = 0 THEN Undefined
    ELSE IF text[k + 1] = "["
         THEN Some(Arr(SubSeq(text, k + 2, Position(text, "]", k + 2) - 1)))
         ELSE Some(Str(SubSeq(text, k + 2, Position(text, "'", k + 2) - 1)))

\* line 168: JSON.parse; ok is FALSE when it throws a SyntaxError, ctx is
\* empty for the text null
JsonParse(text) ==
    IF text = <<"null">> THEN [ok |-> TRUE, ctx |-> NULL]
    ELSE IF Len(text) >= 2 /\ text[1] = "{" /\ text[Len(text)] = "}"
         THEN [ok |-> TRUE,
               ctx |-> Some([files_to_create |-> ParseField(text, "files_to_create"),
                             files_to_modify |-> ParseField(text, "files_to_modify")])]
         ELSE [ok |-> FALSE, ctx |-> NULL]

\* the texts ticket.rag_context holds when it is a string: the empty string,
\* the serialised contexts, the text null, and texts that are not JSON
RagTexts ==
    { StringifyContext(c) : c \in Contexts }
        \cup { <<>>, <<"null">>, <<"not", "json">>, <<"{", "files_to_create", "[">> }

\* ticket.rag_context: missing, a string, or structured data
RagContexts ==
    {[type |-> "undefined", text |-> <<>>, ctx |-> NULL]}
        \cup { [type |-> "string", text |-> t, ctx |-> NULL] : t \in RagTexts }
        \cup { [type |-> "object", text |-> <<>>, ctx |-> Some(c)] : c \in Contexts }

\* line 165: if (ticket.rag_context)
Truthy(rag) == rag.type = "object" \/ (rag.type = "string" /\ rag.text # <<>>)

\* lines 170-171: value || []
OrEmptyArray(v) ==
    IF v = Undefined \/ (~v[1].isArray /\ v[1].items = <<>>) THEN EmptyArray ELSE v[1]

\* lines 162-175: the two lists after the rag_context block, and whether the
\* catch clause logged a warning
ParsedLists(rag) ==
    LET parsed == IF rag.type = "string" THEN JsonParse(rag.text)
                  ELSE [ok |-> TRUE, ctx |-> rag.ctx]
    IN  IF ~Truthy(rag)
        THEN [create |-> EmptyArray, modify |-> EmptyArray, warned |-> FALSE]
        ELSE IF ~parsed.ok \/ parsed.ctx = NULL
        THEN [create |-> EmptyArray, modify |-> EmptyArray, warned |-> TRUE]
        ELSE [create |-> OrEmptyArray(parsed.ctx[1].files_to_create),
              modify |-> OrEmptyArray(parsed.ctx[1].files_to_modify),
              warned |-> FALSE]

\* the fallback left out: the create list stays as parsed
CreateListKept(create, modify, hints) == create

\* lines 178-180: the create list after the fallback to fileHints
CreateListOrHints(create, modify, hints) ==
    IF Len(create.items) = 0 /\ Len(modify.items) = 0 THEN Arr(hints) ELSE create

\* the lines of the files section
CreateHeading == <<"**Files to CREATE (new files):**">>
ModifyHeading == <<"**Files to MODIFY (existing files - use surgical patches):**">>
ContentHeading == <<"**Current content of files to modify:**">>
GenericInstruction == <<"Determine appropriate file structure">>
EmptyLine == <<>>
Bullet(f) == <<"- ", f>>
Bullets(list) == [k \in 1..Len(list) |-> Bullet(list[k])]

\* lines 198-202: the file blocks of the modify targets whose content is known
RECURSIVE FileBlocks(_, _)
FileBlocks(list, existingFiles) ==
    IF list = <<>> THEN <<>>
    ELSE (IF existingFiles[Head(list)] # Undefined
          THEN <<<<"<file path=", Head(list), ">">>>> \o
               [k \in 1..Len(existingFiles[Head(list)][1]) |->
                    <<existingFiles[Head(list)][1][k]>>] \o
               <<<<"</file>">>, EmptyLine>>
          ELSE <<>>)
         \o FileBlocks(Tail(list), existingFiles)

\* lines 183-207: the files section, for lists that are arrays
FilesSection(create, modify, hints, existingFiles) ==
    LET c == IF Len(create) > 0
             THEN <<CreateHeading>> \o Bullets(create) \o <<EmptyLine>>
             ELSE <<>>
        m == IF Len(modify) > 0
             THEN <<ModifyHeading>> \o Bullets(modify)
                    \o <<EmptyLine, ContentHeading, EmptyLine>>
                    \o FileBlocks(modify, existingFiles)
             ELSE <<>>
    IN  IF c \o m = <<>>
        THEN IF Len(hints) > 0 THEN [k \in 1..Len(hints) |-> <<hints[k]>>]
             ELSE <<GenericInstruction>>
        ELSE c \o m

\* lines 187 and 193: map is called on a non-empty value that is not an array
MapThrows(create, modify) ==
    \/ Len(create.items) > 0 /\ ~create.isArray
    \/ Len(modify.items) > 0 /\ ~modify.isArray

\* the locals of buildPrompt's files section
IdlePrompt ==
    [pc |-> "idle", rag_context |-> [type |-> "undefined", text |-> <<>>, ctx |-> NULL],
     fileHints |-> <<>>, existingFiles |-> [p \in Paths |-> Undefined],
     filesToCreate |-> EmptyArray, filesToModify |-> EmptyArray,
     filesSection |-> <<>>, hasModifications |-> FALSE, warned |-> FALSE]

\* ------------------------------------------------------------ apply_patch
\* the text of engine.js is a sequence of blocks: the methods and comments
\* the patcher looks for, and the blocks it inserts
ClassHeader == "class SwarmEngine {"
GetProjectMethod == "async getProject(projectId) {...}"
GetTicketMethod == "async getTicket(ticketId) {...}"
SetNeedsReviewMethod == "async setNeedsReview(evidence, ticketId) {... await this.emitEvent ...}"
SetVerifyingMethod == "async setVerifying(ticketId) {...}"
PollOnceMethod == "async _pollOnce() {..."
ReturnDispatched == "return dispatched; }"
ExecuteTicketMethod == "/** Execute a single ticket */ async executeTicket(ticket) {...}"
PollLoopDoc == "/** Main polling loop */"
ClassEnd == "}"
GET_REVIEW_TICKETS == "async getReviewTickets(limit = 5) {...} async atomicClaimReviewTicket(ticketId) {...}"
STATE_TRANSITIONS == "async setMerged(ticketId, prUrl) {...} async setSentinelFailed(ticketId, reason) {...}"
SENTINEL_REVIEW == "async executeSentinelReview(ticket) {...} async mergePR(ticketId, prUrl, repoUrl) {...}"
SENTINEL_POLL_CODE == "// =========== SENTINEL REVIEW POLLING =========== ... this.getReviewTickets(...) ..."

\* the blocks that hold the text '    async '
AsyncBlocks ==
    {GetProjectMethod, GetTicketMethod, SetNeedsReviewMethod, SetVerifyingMethod,
     PollOnceMethod, ExecuteTicketMethod, GET_REVIEW_TICKETS, STATE_TRANSITIONS,
     SENTINEL_REVIEW}

\* a block when it is there
Opt(present, blocks) == IF present THEN blocks ELSE <<>>

\* the engine files the patcher is run on: each method it looks for is there
\* or not
Engines ==
    { <<ClassHeader>>
        \o Opt(p, <<GetProjectMethod>>) \o Opt(t, <<GetTicketMethod>>)
        \o Opt(n, <<SetNeedsReviewMethod>>) \o Opt(v, <<SetVerifyingMethod>>)
        \o Opt(o, <<PollOnceMethod, ReturnDispatched, ExecuteTicketMethod>>)
        \o Opt(l, <<PollLoopDoc>>) \o <<ClassEnd>> :
      p \in BOOLEAN, t \in BOOLEAN, n \in BOOLEAN, v \in BOOLEAN,
      o \in BOOLEAN, l \in BOOLEAN }

\* content[:k] + block + content[k:], k counted in blocks
InsertAt(content, k, block) ==
    SubSeq(content, 1, k) \o <<block>> \o SubSeq(content, k + 1, Len(content))

\* str.rfind: the last position of a block of a set, 0 when there is none
LastPosition(content, blocks) ==
    IF \E k \in 1..Len(content) : content[k] \in blocks
    THEN CHOOSE k \in 1..Len(content) :
            content[k] \in blocks /\ \A j \in (k + 1)..Len(content) : content[j] \notin blocks
    ELSE 0

\* line 235: 'getReviewTickets' in content
HasGetReviewTickets(content) ==
    \E k \in 1..Len(content) : content[k] \in {GET_REVIEW_TICKETS, SENTINEL_POLL_CODE}

\* lines 239-256: step 2
AddGetReviewTickets(content) ==
    IF Position(content, GetTicketMethod, 1) > 0
    THEN InsertAt(content, Position(content, GetTicketMethod, 1), GET_REVIEW_TICKETS)
    ELSE IF Position(content, GetProjectMethod, 1) > 0
    THEN InsertAt(content, Position(content, GetProjectMethod, 1), GET_REVIEW_TICKETS)
    ELSE content

\* lines 258-272: step 3; content.find(...) > 0 is a position after the first
AddStateTransitions(content) ==
    IF Position(content, SetNeedsReviewMethod, 1) > 0
    THEN InsertAt(content, Position(content, SetNeedsReviewMethod, 1), STATE_TRANSITIONS)
    ELSE IF Position(content, SetVerifyingMethod, 1) > 1
    THEN InsertAt(content, Position(content, SetVerifyingMethod, 1) - 1, STATE_TRANSITIONS)
    ELSE content

\* lines 288-291: the end of the method that starts at block k
EndOfMethod(content, k) ==
    IF content[k] = PollOnceMethod /\ k < Len(content) THEN k + 1 ELSE k

\* lines 274-291: step 4
AddSentinelReview(content) ==
    IF Position(content, PollLoopDoc, 1) > 0
    THEN InsertAt(content, Position(content, PollLoopDoc, 1) - 1, SENTINEL_REVIEW)
    ELSE IF LastPosition(content, AsyncBlocks) > 1
    THEN InsertAt(content, EndOfMethod(content, LastPosition(content, AsyncBlocks)),
                  SENTINEL_REVIEW)
    ELSE content

\* line 296: the return of _pollOnce directly before the comment of executeTicket
ReturnPatternMatches(content) ==
    \E k \in 1..(Len(content) - 1) :
        content[k] = ReturnDispatched /\ content[k + 1] = ExecuteTicketMethod

\* line 311: every 'return dispatched;' of the section becomes the polling
\* block, which ends with 'return dispatched;'
RECURSIVE WithPollCode(_)
WithPollCode(section) ==
    IF section = <<>> THEN <<>>
    ELSE (IF Head(section) = ReturnDispatched
          THEN <<SENTINEL_POLL_CODE, ReturnDispatched>>
          ELSE <<Head(section)>>) \o WithPollCode(Tail(section))

\* lines 293-316: step 5
ModifyPollOnce(content) ==
    LET start == Position(content, PollOnceMethod, 1)
        end == IF start > 0 THEN Position(content, ExecuteTicketMethod, start) ELSE 0
        section == SubSeq(content, start, end - 1)
    IN  IF /\ ReturnPatternMatches(content)
           /\ start > 1
           /\ end > 1
           /\ \E k \in 1..Len(section) : section[k] = ReturnDispatched
           /\ \A k \in 1..Len(section) : section[k] # SENTINEL_POLL_CODE
        THEN SubSeq(content, 1, start - 1) \o WithPollCode(section)
                \o SubSeq(content, end, Len(content))
        ELSE content

\* the engine file, its backup and the locals of apply_patch
IdlePatch ==
    [pc |-> "idle", runs |-> 0, engine |-> <<>>, backup |-> NoFile,
     original |-> <<>>, content |-> <<>>]

\* no call of the coder agent's functions or of the patcher is under way
EditIdle ==
    /\ fsFiles = [p \in Paths |-> NoFile]
    /\ fsDirs = {RepoDir}
    /\ wf = IdleWrite
    /\ wlog = {}
    /\ ff = IdleFetch
    /\ bp = IdlePrompt
    /\ ep = IdlePatch

\* ------------------------------------------------- executeSentinelReview
\* the frame of one invocation
IdleFrame ==
    [pc |-> "idle", tk |-> 0, won |-> FALSE, claim |-> "pending",
     prUrl |-> NoPrUrl, status |-> "none", mergePR |-> FALSE, cmd |-> NotRun,
     ctx |-> "none", reason |-> <<>>]

\* the invocation has ended: returned normally, or rejected its promise
Ended == {"idle", "done", "rejected"}
Return(x) == [x EXCEPT !.pc = "done", !.ctx = "none", !.reason = <<>>]
Reject(x) == [x EXCEPT !.pc = "rejected", !.ctx = "none", !.reason = <<>>]

\* this.executeSentinelReview(ticket): runs up to the claim query
LaunchedFrame(t) == [IdleFrame EXCEPT !.pc = "claim", !.tk = t]

\* a call of setSentinelFailed(ticketId, reason) from call site ctx
CallSetSentinelFailed(x, ctx, reason) ==
    [x EXCEPT !.pc = "sf_update", !.ctx = ctx, !.reason = reason]

\* a call of setMerged(ticketId, prUrl) from call site ctx
CallSetMerged(x, ctx) == [x EXCEPT !.pc = "sm_update", !.ctx = ctx]

\* catch (err) of lines 149-152
CatchErr(x, err) == CallSetSentinelFailed(x, "outer", err.message)

\* catch (mergeErr) of lines 140-143
CatchMergeErr(x, err) ==
    CallSetSentinelFailed(x, "mergeErr", MergeFailed(err.message))

\* an error thrown inside setMerged: the try of mergePR catches the call of
\* line 194, the call of line 198 is outside it
RaiseInSetMerged(x, err) ==
    IF x.ctx = "try" /\ IsAlreadyMerged(err)
    THEN CallSetMerged(x, "catch")
    ELSE CatchMergeErr(x, err)

\* an error thrown inside setSentinelFailed: the calls of lines 120, 142
\* and 147 are inside the outer try, the call of line 151 is not
RaiseInSetSentinelFailed(x, err) ==
    IF x.ctx = "outer"
    THEN Reject(x)
    ELSE CatchErr(x, err)

\* the branch of line 136 taken for every status but 'failed'
ApprovedUnlessFailed(status) == status # "failed"

\* verifyResult.status === 'passed'
Approved(status) == status = "passed"

\* mergePR up to its first await: the pattern, then execSync with outcome m
MergePR(x, m) ==
    IF ~MatchPrUrl(x.prUrl)
    THEN CatchMergeErr([x EXCEPT !.mergePR = TRUE], Err(InvalidPrUrl(x.prUrl)))
    ELSE LET y == [x EXCEPT !.mergePR = TRUE, !.cmd = m] IN
         IF m = MergeOk THEN CallSetMerged(y, "try")
         ELSE IF IsAlreadyMerged(m) THEN CallSetMerged(y, "catch")
         ELSE CatchMergeErr(y, m)

\* lines 125-132 reached without the check of line 118
AfterRepoUrlUnchecked(x) == [x EXCEPT !.pc = "verify"]

\* lines 118-132: the PR URL check, then the verifier is invoked
AfterRepoUrl(x) ==
    IF x.prUrl = NoPrUrl
    THEN CallSetSentinelFailed(x, "nopr", NoPrUrlFound)
    ELSE [x EXCEPT !.pc = "verify"]

\* whether an awaited collaborator call may raise
Outcomes == IF faultsLeft > 0 THEN {"ok", "raise"} ELSE {"ok"}
\* notifyTicketStateChange followed by emitEvent
EmitOutcomes ==
    IF faultsLeft > 0 THEN {"ok", "notify_raise", "event_raise"} ELSE {"ok"}
EmitError(f) == IF f = "notify_raise" THEN NotifyError ELSE EventError

Fault(f, t) ==
    /\ faultsLeft' = IF f = "ok" THEN faultsLeft ELSE faultsLeft - 1
    /\ faulted' = IF f = "ok" THEN faulted ELSE faulted \cup {t}

LoopVars == <<lpc, reviewTickets, available, dispatched, shuttingDown, launched>>

Init ==
    /\ tickets \in InitialTables
    /\ events = [t \in Tickets |-> <<>>]
    /\ notified = {}
    /\ logged = {}
    /\ ex = [e \in Execs |-> IdleFrame]
    /\ lpc = "idle"
    /\ reviewTickets = <<>>
    /\ available = 0
    /\ dispatched = 0
    /\ shuttingDown = FALSE
    /\ launched = 0
    /\ faultsLeft = MaxFaults
    /\ faulted = {}
    /\ EditIdle

\* the UPDATE of atomicClaimReviewTicket takes effect
AtomicClaimUpdate(e) ==
    /\ ex[e].pc = "claim"
    /\ \E f \in Outcomes :
        LET t == ex[e].tk IN
        /\ Fault(f, t)
        /\ IF f = "raise"
           THEN /\ ex' = [ex EXCEPT ![e] = CatchErr(@, StoreError)]
                /\ UNCHANGED tickets
           ELSE IF ClaimGuard(tickets[t])
           THEN /\ tickets' = [tickets EXCEPT ![t] = ClaimedRow(@)]
                /\ ex' = [ex EXCEPT ![e].pc = "claim_emit", ![e].won = TRUE]
           ELSE /\ ex' = [ex EXCEPT ![e] = Return([@ EXCEPT !.claim = "null"])]
                /\ UNCHANGED tickets
    /\ UNCHANGED <<events, notified, logged, LoopVars>>
    /\ UNCHANGED EditVars

\* lines 51-55, then lines 113-122 of executeSentinelReview
AtomicClaimEmit(e) ==
    /\ ex[e].pc = "claim_emit"
    /\ \E f \in EmitOutcomes, u \in PrUrls, hasRepoUrl \in BOOLEAN :
        LET t == ex[e].tk IN
        /\ Fault(f, t)
        /\ notified' = IF f = "notify_raise" THEN notified
                       ELSE notified \cup {<<t, "reviewing">>}
        /\ events' = IF f = "ok"
                     THEN [events EXCEPT ![t] = Append(@, SentinelStartedEvent)]
                     ELSE events
        /\ ex' = IF f # "ok"
                 THEN [ex EXCEPT ![e] = CatchErr([@ EXCEPT !.claim = "raised"], EmitError(f))]
                 ELSE LET x == [ex[e] EXCEPT !.claim = "record", !.prUrl = u] IN
                      [ex EXCEPT ![e] = IF hasRepoUrl THEN AfterRepoUrl(x)
                                        ELSE [x EXCEPT !.pc = "repo"]]
    /\ UNCHANGED <<tickets, logged, LoopVars>>
    /\ UNCHANGED EditVars

\* await this._getRepoUrlForTicket(ticket), then lines 118-132
GetRepoUrlForTicket(e) ==
    /\ ex[e].pc = "repo"
    /\ \E f \in Outcomes :
        /\ Fault(f, ex[e].tk)
        /\ ex' = [ex EXCEPT ![e] = IF f = "raise" THEN CatchErr(@, RepoLookupError)
                                   ELSE AfterRepoUrl(@)]
    /\ UNCHANGED <<tickets, events, notified, logged, LoopVars>>
    /\ UNCHANGED EditVars

\* the verifier answers; lines 134-148 and mergePR up to its first await
VerifyAndMerge(e) ==
    /\ ex[e].pc = "verify"
    /\ \E f \in Outcomes, st \in VerifyStatuses, m \in MergeOutcomes :
        /\ Fault(f, ex[e].tk)
        /\ ex' = [ex EXCEPT ![e] =
                    IF f = "raise" THEN CatchErr(@, VerifierError)
                    ELSE IF Approved(st) THEN MergePR([@ EXCEPT !.status = st], m)
                    ELSE CallSetSentinelFailed([@ EXCEPT !.status = st], "verdict",
                                               JsonStringify(st))]
    /\ UNCHANGED <<tickets, events, notified, logged, LoopVars>>
    /\ UNCHANGED EditVars

\* the UPDATE of setMerged takes effect
SetMergedUpdate(e) ==
    /\ ex[e].pc = "sm_update"
    /\ \E f \in Outcomes :
        LET t == ex[e].tk IN
        /\ Fault(f, t)
        /\ IF f = "raise"
           THEN /\ ex' = [ex EXCEPT ![e] = RaiseInSetMerged(@, StoreError)]
                /\ UNCHANGED tickets
           ELSE /\ tickets' = [tickets EXCEPT ![t] = MergedRow(@)]
                /\ ex' = [ex EXCEPT ![e].pc = "sm_emit"]
    /\ UNCHANGED <<events, notified, logged, LoopVars>>
    /\ UNCHANGED EditVars

\* lines 73-75 of setMerged, then mergePR and executeSentinelReview return
SetMergedEmit(e) ==
    /\ ex[e].pc = "sm_emit"
    /\ \E f \in EmitOutcomes :
        LET t == ex[e].tk IN
        /\ Fault(f, t)
        /\ notified' = IF f = "notify_raise" THEN notified
                       ELSE notified \cup {<<t, "merged">>}
        /\ events' = IF f = "ok"
                     THEN [events EXCEPT ![t] = Append(@, MergedEvent(ex[e].prUrl))]
                     ELSE events
        /\ logged' = IF f = "ok" THEN logged \cup {<<t, "merged">>} ELSE logged
        /\ ex' = [ex EXCEPT ![e] = IF f = "ok" THEN Return(@)
                                   ELSE RaiseInSetMerged(@, EmitError(f))]
    /\ UNCHANGED <<tickets, LoopVars>>
    /\ UNCHANGED EditVars

\* the UPDATE of setSentinelFailed takes effect
SetSentinelFailedUpdate(e) ==
    /\ ex[e].pc = "sf_update"
    /\ \E f \in Outcomes :
        LET t == ex[e].tk IN
        /\ Fault(f, t)
        /\ IF f = "raise"
           THEN /\ ex' = [ex EXCEPT ![e] = RaiseInSetSentinelFailed(@, StoreError)]
                /\ UNCHANGED tickets
           ELSE /\ tickets' = [tickets EXCEPT ![t] = SentinelFailedRow(@)]
                /\ ex' = [ex EXCEPT ![e].pc = "sf_emit"]
    /\ UNCHANGED <<events, notified, logged, LoopVars>>
    /\ UNCHANGED EditVars

\* lines 90-92 of setSentinelFailed, then executeSentinelReview returns
SetSentinelFailedEmit(e) ==
    /\ ex[e].pc = "sf_emit"
    /\ \E f \in EmitOutcomes :
        LET t == ex[e].tk IN
        /\ Fault(f, t)
        /\ notified' = IF f = "notify_raise" THEN notified
                       ELSE notified \cup {<<t, "sentinel_failed">>}
        /\ events' = IF f = "ok"
                     THEN [events EXCEPT ![t] = Append(@, SentinelFailedEvent(ex[e].reason))]
                     ELSE events
        /\ logged' = IF f = "ok" THEN logged \cup {<<t, "sentinel_failed">>} ELSE logged
        /\ ex' = [ex EXCEPT ![e] = IF f = "ok" THEN Return(@)
                                   ELSE RaiseInSetSentinelFailed(@, EmitError(f))]
    /\ UNCHANGED <<tickets, LoopVars>>
    /\ UNCHANGED EditVars

\* ------------------------------------------------ review polling of _pollOnce
\* the limit computed from the free slots alone
ReviewLimitIgnoringDispatched(a, d) == Max(1, a)

\* Math.max(1, available - dispatched)
ReviewLimit(a, d) == Max(1, a - d)

\* the for loop without the check of line 213
LaunchCountIgnoringFlag(rows, flag) == Len(rows)

\* the for loop of lines 212-219: how many rows are handed to
\* executeSentinelReview, given the flag the loop reads
LaunchCount(rows, flag) == IF flag THEN 0 ELSE Len(rows)

\* lines 210-211: the flag is read, the query is sent and answered
PollReviewTickets ==
    /\ lpc = "idle"
    /\ \E a \in 0..MaxAvailable, d \in 0..MaxDispatched, f \in Outcomes :
        /\ launched + ReviewLimit(a, d) <= MaxExec
        /\ faultsLeft' = IF f = "ok" \/ shuttingDown THEN faultsLeft ELSE faultsLeft - 1
        /\ IF shuttingDown \/ f = "raise"
           THEN UNCHANGED <<lpc, reviewTickets, available, dispatched>>
           ELSE /\ lpc' = "listed"
                /\ available' = a
                /\ dispatched' = d
                /\ reviewTickets' \in getReviewTickets(ReviewLimit(a, d))
    /\ UNCHANGED <<tickets, events, notified, logged, ex, shuttingDown, launched, faulted>>
    /\ UNCHANGED EditVars

\* lines 212-222: the loop over the rows, then return dispatched
DispatchReviews ==
    /\ lpc = "listed"
    /\ LET n == LaunchCount(reviewTickets, shuttingDown) IN
        /\ ex' = [e \in Execs |->
                    IF launched < e /\ e <= launched + n
                    THEN LaunchedFrame(reviewTickets[e - launched])
                    ELSE ex[e]]
        /\ launched' = launched + n
    /\ lpc' = "idle"
    /\ reviewTickets' = <<>>
    /\ available' = 0
    /\ dispatched' = 0
    /\ UNCHANGED <<tickets, events, notified, logged, shuttingDown, faultsLeft, faulted>>
    /\ UNCHANGED EditVars

\* the process is asked to stop
Shutdown ==
    /\ ~shuttingDown
    /\ shuttingDown' = TRUE
    /\ UNCHANGED <<tickets, events, notified, logged, ex, lpc, reviewTickets,
                   available, dispatched, launched, faultsLeft, faulted>>
    /\ UNCHANGED EditVars

ExecStep(e) ==
    \/ AtomicClaimUpdate(e)
    \/ AtomicClaimEmit(e)
    \/ GetRepoUrlForTicket(e)
    \/ VerifyAndMerge(e)
    \/ SetMergedUpdate(e)
    \/ SetMergedEmit(e)
    \/ SetSentinelFailedUpdate(e)
    \/ SetSentinelFailedEmit(e)

Next ==
    \/ \E e \in Execs : ExecStep(e)
    \/ PollReviewTickets
    \/ DispatchReviews
    \/ Shutdown

Spec == Init /\ [][Next]_vars

\* the event loop runs every pending continuation, the collaborators answer,
\* and the poll timer keeps firing
Fairness ==
    /\ \A e \in Execs : WF_vars(ExecStep(e))
    /\ WF_vars(PollReviewTickets)
    /\ WF_vars(DispatchReviews)

FairSpec == Spec /\ Fairness

TypeOK ==
    /\ \A t \in Tickets : tickets[t].state \in {"in_review", "reviewing"} \cup Terminal
    /\ faultsLeft \in 0..MaxFaults

\* ------------------------------------------------------------- writeFiles
\* the review sub-pipeline at rest
ReviewIdle ==
    /\ tickets = [t \in Tickets |-> Row(SentinelAgent, "agent", NULL, 1)]
    /\ events = [t \in Tickets |-> <<>>]
    /\ notified = {}
    /\ logged = {}
    /\ ex = [e \in Execs |-> IdleFrame]
    /\ lpc = "idle"
    /\ reviewTickets = <<>>
    /\ available = 0
    /\ dispatched = 0
    /\ shuttingDown = FALSE
    /\ launched = 0
    /\ faultsLeft = 0
    /\ faulted = {}

\* a line of log.info / log.warn / log.error
Log(level, message, path) == <<level, message, path>>

\* lines 84-86: fs.mkdirSync(fileDir, { recursive: true }) when it is missing
MkdirSync(dirs, d) == dirs \cup {d}

\* the end of one turn of the loop over files: its locals go out of scope
EndFile(w) ==
    [w EXCEPT !.pc = "files", !.file = NoEdit, !.original = <<>>,
              !.fileContent = <<>>, !.patchesApplied = 0, !.i = 0]

\* what is kept of a record of files once its turn is over
Shape(file) ==
    [path |-> file.path, action |-> file.action, patches |-> file.patches # Undefined]

\* for (const file of files): the record taken leaves the list
TakeFile(w, file) ==
    [w EXCEPT !.left = @ - 1, !.file = file, !.order = Append(@, Shape(file)),
              !.budget = @ - (IF IsSurgical(file) THEN Len(file.patches[1]) ELSE 0)]

\* writeFiles(repoDir, files) is called on a checkout
WriteInit ==
    /\ ReviewIdle
    /\ \E c \in InitialCheckouts, n \in 0..MaxFiles :
        /\ fsFiles = c.files
        /\ fsDirs = c.dirs
        /\ wf = [IdleWrite EXCEPT !.pc = "files", !.left = n, !.budget = MaxPatches]
    /\ wlog = {}
    /\ ff = IdleFetch
    /\ bp = IdlePrompt
    /\ ep = IdlePatch

\* lines 80-96: a modify record with a patches array
BeginModify ==
    /\ wf.pc = "files"
    /\ wf.left > 0
    /\ \E file \in SurgicalEdits(wf.budget) :
        /\ IsSurgical(file)
        /\ fsDirs' = MkdirSync(fsDirs, Dirname(file.path))
        /\ IF ~ExistsSync(fsFiles, file.path)
           THEN /\ wlog' = wlog \cup {Log("error", "Cannot modify non-existent file", file.path)}
                /\ wf' = EndFile(TakeFile(wf, file))
           ELSE /\ wlog' = wlog
                /\ wf' = [TakeFile(wf, file) EXCEPT
                            !.pc = "patches",
                            !.original = fsFiles[file.path][1],
                            !.fileContent = fsFiles[file.path][1],
                            !.patchesApplied = 0,
                            !.i = 0]
    /\ UNCHANGED <<fsFiles, ff>>
    /\ UNCHANGED ReviewVars
    /\ UNCHANGED <<bp, ep>>

\* lines 98-119: one turn of the loop over file.patches
ApplyPatch ==
    /\ wf.pc = "patches"
    /\ wf.i < Len(wf.file.patches[1])
    /\ LET patch == wf.file.patches[1][wf.i + 1]
           path == wf.file.path
           seen == PatchedContent(wf.original, wf.fileContent)
       IN  IF IsInvalidPatch(patch)
           THEN /\ wlog' = wlog \cup {Log("warn", "Invalid patch format", path)}
                /\ wf' = [wf EXCEPT !.i = @ + 1]
           ELSE IF ~Includes(seen, patch.search[1])
           THEN /\ wlog' = wlog \cup {Log("warn", "Patch search text not found", path)}
                /\ wf' = [wf EXCEPT !.i = @ + 1]
           ELSE /\ wlog' = IF Occurrences(seen, patch.search[1]) > 1
                           THEN wlog \cup {Log("warn", "Patch search text not unique", path)}
                           ELSE wlog
                /\ wf' = [wf EXCEPT
                            !.fileContent = Replace(seen, patch.search[1], patch.replace[1]),
                            !.patchesApplied = @ + 1,
                            !.i = @ + 1]
    /\ UNCHANGED <<fsFiles, fsDirs, ff>>
    /\ UNCHANGED ReviewVars
    /\ UNCHANGED <<bp, ep>>

\* lines 121-131: the content is written back, or the file is left alone
WriteBack ==
    /\ wf.pc = "patches"
    /\ wf.i = Len(wf.file.patches[1])
    /\ LET path == wf.file.path IN
       IF WriteBackWanted(wf.patchesApplied)
       THEN /\ fsFiles' = [fsFiles EXCEPT ![path] = Some(wf.fileContent)]
            /\ wf' = EndFile([wf EXCEPT !.written = Append(@, path)])
            /\ wlog' = wlog \cup {Log("info", "Applied patches to file", path)}
       ELSE /\ fsFiles' = fsFiles
            /\ wf' = EndFile(wf)
            /\ wlog' = wlog \cup {Log("error", "No patches applied to file", path)}
    /\ UNCHANGED <<fsDirs, ff>>
    /\ UNCHANGED ReviewVars
    /\ UNCHANGED <<bp, ep>>

\* lines 80-86 and 133-138: any other record is written whole.  With
\* file.content undefined, fs.writeFileSync either throws or writes the text
\* 'undefined' (the Node version decides), and file.content.length throws
WriteWholeFile ==
    /\ wf.pc = "files"
    /\ wf.left > 0
    /\ \E file \in WholeFileEdits, writesUndefined \in BOOLEAN :
        /\ ~IsSurgical(file)
        /\ fsDirs' = MkdirSync(fsDirs, Dirname(file.path))
        /\ IF file.content # Undefined
           THEN /\ fsFiles' = [fsFiles EXCEPT ![file.path] = Some(file.content[1])]
                /\ wf' = EndFile([TakeFile(wf, file) EXCEPT !.written = Append(@, file.path)])
                /\ wlog' = wlog \cup {Log("info", "Wrote file", file.path)}
           ELSE IF writesUndefined
           THEN /\ fsFiles' = [fsFiles EXCEPT ![file.path] = Some(UndefinedText)]
                /\ wf' = [TakeFile(wf, file) EXCEPT
                            !.pc = "threw", !.written = Append(@, file.path)]
                /\ wlog' = wlog
           ELSE /\ fsFiles' = fsFiles
                /\ wf' = [TakeFile(wf, file) EXCEPT !.pc = "threw"]
                /\ wlog' = wlog
    /\ UNCHANGED ff
    /\ UNCHANGED ReviewVars
    /\ UNCHANGED <<bp, ep>>

\* line 141: return written
ReturnWritten ==
    /\ wf.pc = "files"
    /\ wf.left = 0
    /\ wf' = [wf EXCEPT !.pc = "returned"]
    /\ UNCHANGED <<fsFiles, fsDirs, wlog, ff>>
    /\ UNCHANGED ReviewVars
    /\ UNCHANGED <<bp, ep>>

WriteNext ==
    \/ BeginModify
    \/ ApplyPatch
    \/ WriteBack
    \/ WriteWholeFile
    \/ ReturnWritten

WriteSpec == WriteInit /\ [][WriteNext]_vars

\* ----------------------------------------------- fetchExistingFileContent
DefaultMaxLines == 300

\* the line counts and budgets of the calls: the small ones, the default
\* budget and a file of a thousand lines
LineCounts == (1..MaxLines) \cup {1000}
Budgets == (1..MaxBudget) \cup {DefaultMaxLines}

\* fetchExistingFileContent(repoDir, filePath, maxLines) is called
FetchInit ==
    /\ ReviewIdle
    /\ fsFiles = [p \in Paths |-> NoFile]
    /\ fsDirs = {RepoDir}
    /\ wf = IdleWrite
    /\ wlog = {}
    /\ bp = IdlePrompt
    /\ ep = IdlePatch
    /\ \E exists \in BOOLEAN, n \in LineCounts, m \in Budgets :
        ff = [pc |-> "call", exists |-> exists,
              lines |-> IF exists THEN n ELSE 0, maxLines |-> m, result |-> NULL]

\* lines 28-45
FetchExistingFileContent ==
    /\ ff.pc = "call"
    /\ ff' = [ff EXCEPT
                !.pc = "returned",
                !.result = IF ~ff.exists THEN NULL
                           ELSE Some(Truncated(FileLines(ff.lines), ff.maxLines))]
    /\ UNCHANGED <<fsFiles, fsDirs, wf, wlog>>
    /\ UNCHANGED ReviewVars
    /\ UNCHANGED <<bp, ep>>

FetchNext == FetchExistingFileContent

FetchSpec == FetchInit /\ [][FetchNext]_vars

\* ------------------------------------------------- buildPrompt, lines 161-209
\* buildPrompt reaches its files section with a ticket, the hints computed
\* before it and the contents passed to it
PromptInit ==
    /\ ReviewIdle
    /\ fsFiles = [p \in Paths |-> NoFile]
    /\ fsDirs = {RepoDir}
    /\ wf = IdleWrite
    /\ wlog = {}
    /\ ff = IdleFetch
    /\ ep = IdlePatch
    /\ \E rag \in RagContexts, hints \in TargetLists,
          existing \in [Paths -> {Undefined, Some(NewContent)}] :
        bp = [IdlePrompt EXCEPT !.pc = "parse", !.rag_context = rag,
                                !.fileHints = hints, !.existingFiles = existing]

\* lines 162-175: the lists are read from ticket.rag_context
ParseRagContext ==
    /\ bp.pc = "parse"
    /\ LET lists == ParsedLists(bp.rag_context) IN
        bp' = [bp EXCEPT !.pc = "fallback",
                         !.filesToCreate = lists.create,
                         !.filesToModify = lists.modify,
                         !.warned = lists.warned]
    /\ UNCHANGED <<fsFiles, fsDirs, wf, wlog, ff, ep>>
    /\ UNCHANGED ReviewVars

\* lines 177-180
FallBackToFileHints ==
    /\ bp.pc = "fallback"
    /\ bp' = [bp EXCEPT !.pc = "render",
                        !.filesToCreate =
                            CreateListOrHints(bp.filesToCreate, bp.filesToModify,
                                              bp.fileHints)]
    /\ UNCHANGED <<fsFiles, fsDirs, wf, wlog, ff, ep>>
    /\ UNCHANGED ReviewVars

\* lines 182-209: the section is built; map raises a TypeError on a value
\* that is not an array
BuildFilesSection ==
    /\ bp.pc = "render"
    /\ IF MapThrows(bp.filesToCreate, bp.filesToModify)
       THEN bp' = [bp EXCEPT !.pc = "threw"]
       ELSE bp' = [bp EXCEPT
                     !.pc = "done",
                     !.filesSection =
                         FilesSection(bp.filesToCreate.items, bp.filesToModify.items,
                                      bp.fileHints, bp.existingFiles),
                     !.hasModifications = Len(bp.filesToModify.items) > 0]
    /\ UNCHANGED <<fsFiles, fsDirs, wf, wlog, ff, ep>>
    /\ UNCHANGED ReviewVars

PromptNext ==
    \/ ParseRagContext
    \/ FallBackToFileHints
    \/ BuildFilesSection

PromptSpec == PromptInit /\ [][PromptNext]_vars

\* ---------------------------------------------------------------- apply_patch
\* the patcher is about to be run on an engine file
PatchInit ==
    /\ ReviewIdle
    /\ fsFiles = [p \in Paths |-> NoFile]
    /\ fsDirs = {RepoDir}
    /\ wf = IdleWrite
    /\ wlog = {}
    /\ ff = IdleFetch
    /\ bp = IdlePrompt
    /\ \E engine \in Engines :
        ep = [IdlePatch EXCEPT !.pc = "start", !.engine = engine, !.original = engine]

\* lines 225-232: the engine file is read and copied to engine.js.bak-sentinel
ReadAndBackup ==
    /\ ep.pc = "start"
    /\ ep.runs < MaxRuns
    /\ ep' = [ep EXCEPT !.pc = "check", !.runs = @ + 1,
                        !.content = ep.engine, !.backup = Some(ep.engine)]
    /\ UNCHANGED <<fsFiles, fsDirs, wf, wlog, ff, bp>>
    /\ UNCHANGED ReviewVars

\* lines 234-237: the engine already contains sentinel polling
SkipPatched ==
    /\ ep.pc = "check"
    /\ HasGetReviewTickets(ep.content)
    /\ ep' = [ep EXCEPT !.pc = "start", !.content = <<>>]
    /\ UNCHANGED <<fsFiles, fsDirs, wf, wlog, ff, bp>>
    /\ UNCHANGED ReviewVars

\* lines 234-256
PatchStep2 ==
    /\ ep.pc = "check"
    /\ ~HasGetReviewTickets(ep.content)
    /\ ep' = [ep EXCEPT !.pc = "step3", !.content = AddGetReviewTickets(@)]
    /\ UNCHANGED <<fsFiles, fsDirs, wf, wlog, ff, bp>>
    /\ UNCHANGED ReviewVars

\* lines 258-272
PatchStep3 ==
    /\ ep.pc = "step3"
    /\ ep' = [ep EXCEPT !.pc = "step4", !.content = AddStateTransitions(@)]
    /\ UNCHANGED <<fsFiles, fsDirs, wf, wlog, ff, bp>>
    /\ UNCHANGED ReviewVars

\* lines 274-291
PatchStep4 ==
    /\ ep.pc = "step4"
    /\ ep' = [ep EXCEPT !.pc = "step5", !.content = AddSentinelReview(@)]
    /\ UNCHANGED <<fsFiles, fsDirs, wf, wlog, ff, bp>>
    /\ UNCHANGED ReviewVars

\* lines 293-316
PatchStep5 ==
    /\ ep.pc = "step5"
    /\ ep' = [ep EXCEPT !.pc = "write", !.content = ModifyPollOnce(@)]
    /\ UNCHANGED <<fsFiles, fsDirs, wf, wlog, ff, bp>>
    /\ UNCHANGED ReviewVars

\* lines 318-323: the patched text is written to the engine file
WritePatched ==
    /\ ep.pc = "write"
    /\ ep' = [ep EXCEPT !.pc = "start", !.engine = ep.content, !.content = <<>>]
    /\ UNCHANGED <<fsFiles, fsDirs, wf, wlog, ff, bp>>
    /\ UNCHANGED ReviewVars

PatchNext ==
    \/ ReadAndBackup
    \/ SkipPatched
    \/ PatchStep2
    \/ PatchStep3
    \/ PatchStep4
    \/ PatchStep5
    \/ WritePatched

PatchSpec == PatchInit /\ [][PatchNext]_vars

\* ------------------------------------------------------------------ claims
InFlight(e) == ex[e].pc \notin Ended
CallsOn(t) == { e \in Execs : ex[e].pc # "idle" /\ ex[e].tk = t }
Winners(t) == { e \in CallsOn(t) : ex[e].won }
ClaimAnswered(e) == ex[e].claim \in {"record", "null"}
LastEvent(t) == events[t][Len(events[t])]

\* the calls on a ticket, counted
C1_AtMostOneWinner ==
    \A t \in Tickets :
        /\ Cardinality(Winners(t)) <= 1
        /\ \A e \in CallsOn(t) : ex[e].claim = "record" => ex[e].won
        /\ tickets[t].state = "reviewing" =>
              /\ tickets[t].vm_id = ReviewSlot
              /\ Cardinality(Winners(t)) = 1
        /\ ( /\ t \notin faulted
             /\ CallsOn(t) # {}
             /\ \A e \in CallsOn(t) : ClaimAnswered(e) )
           => Cardinality({ e \in CallsOn(t) : ex[e].claim = "record" }) = 1

\* what one call of atomicClaimReviewTicket does
C1_ClaimStep ==
    \A e \in Execs :
        /\ (~ex[e].won /\ ex'[e].won) =>
              /\ tickets[ex[e].tk].state = "in_review"
              /\ tickets'[ex[e].tk].state = "reviewing"
              /\ tickets'[ex[e].tk].vm_id = ReviewSlot
        /\ (ex[e].claim # "null" /\ ex'[e].claim = "null") =>
              /\ tickets[ex[e].tk].state # "in_review"
              /\ tickets' = tickets
              /\ events' = events
              /\ notified' = notified
        /\ \A t \in Tickets :
              tickets[t].state # "in_review" => tickets'[t].state # "in_review"

\* C1: claim exclusivity.  Of all atomicClaimReviewTicket calls on a ticket
\* at most one matches the row, and only a matching call returns the record;
\* a call matches only a row in in_review and leaves it reviewing with vm_id
\* -1; a call that returns null changes neither the table nor the event log
\* nor the notifications; a ticket that left in_review never returns to it,
\* so no later call matches.  When no collaborator raised on the ticket and
\* every call on it has answered, exactly one call returned the record.
C1_ClaimExclusive == [](C1_AtMostOneWinner) /\ [][C1_ClaimStep]_vars

\* two calls on one ticket have answered: one with the record, one with null
C1_Witness ==
    \E t \in Tickets : \E e1, e2 \in CallsOn(t) :
        /\ ex[e1].claim = "record"
        /\ ex[e2].claim = "null"
        /\ t \notin faulted

\* C2: a ticket whose state is merged or sentinel_failed keeps that state in
\* every step of the review subsystem.
C2_TerminalStateKept ==
    [][\A t \in Tickets :
          tickets[t].state \in Terminal => tickets'[t].state = tickets[t].state]_vars

\* C3: when the invocation that claimed a ticket has ended, the ticket is
\* merged or sentinel_failed (it is not left in reviewing).
C3_ClaimedTicketReachesTerminal ==
    \A e \in Execs :
        (ex[e].pc \in {"done", "rejected"} /\ ex[e].won)
            => tickets[ex[e].tk].state \in Terminal

\* C4: executeSentinelReview never rejects its promise.
C4_NeverPropagates == \A e \in Execs : ex[e].pc # "rejected"

\* the merge errors whose message or captured error stream says the PR
\* has already been merged
AlreadyMergedReports ==
    { m \in MergeErrors :
        \E s \in {m.message, m.stderr} : Includes(s, AlreadyBeenMerged) }

\* C5: idempotent merge.  When the merge command fails and its message or
\* its error stream says the PR has already been merged, and no collaborator
\* raises on the ticket, mergePR goes on to setMerged (it does not raise and
\* setSentinelFailed is not called), and once the update is made the ticket is
\* merged: merged_at stamped and, at the return, a merged event appended.
C5_IdempotentMerge ==
    \A e \in Execs :
        (ex[e].cmd \in AlreadyMergedReports /\ ex[e].tk \notin faulted) =>
            /\ ex[e].pc \in {"sm_update", "sm_emit", "done"}
            /\ ex[e].pc \in {"sm_emit", "done"} =>
                  /\ tickets[ex[e].tk].state = "merged"
                  /\ tickets[ex[e].tk].merged_at # NULL
            /\ ex[e].pc = "done" =>
                  /\ LastEvent(ex[e].tk).type = "merged"
                  /\ LastEvent(ex[e].tk).to_state = "merged"

\* mergePR has returned on an already-merged report found in the error stream only
C5_Witness ==
    \E e \in Execs :
        /\ ex[e].cmd \in AlreadyMergedReports
        /\ ~Includes(ex[e].cmd.message, AlreadyBeenMerged)
        /\ ex[e].pc = "done"
        /\ tickets[ex[e].tk].state = "merged"

\* C6: the end-to-end pass.  An invocation that got the claimed record for a
\* ticket with a well-formed PR URL, whose verifier answered passed and whose
\* merge command succeeded, with no collaborator raising on the ticket, ends
\* with the ticket merged, merged_at set, vm_id cleared, and the ticket's
\* event log exactly: sentinel_started (in_review to reviewing), then merged
\* (reviewing to merged).
C6_PassEndsMerged ==
    \A e \in Execs :
        ( /\ ex[e].pc = "done"
          /\ ex[e].claim = "record"
          /\ ex[e].prUrl = GoodPrUrl
          /\ ex[e].status = "passed"
          /\ ex[e].cmd = MergeOk
          /\ ex[e].tk \notin faulted )
        => /\ tickets[ex[e].tk].state = "merged"
           /\ tickets[ex[e].tk].merged_at # NULL
           /\ tickets[ex[e].tk].vm_id = NULL
           /\ events[ex[e].tk] =
                <<Event("sentinel_started", "in_review", "reviewing", <<>>),
                  Event("merged", "reviewing", "merged", GoodPrUrl)>>

C6_Witness ==
    \E e \in Execs :
        /\ ex[e].pc = "done"
        /\ ex[e].claim = "record"
        /\ ex[e].prUrl = GoodPrUrl
        /\ ex[e].status = "passed"
        /\ ex[e].cmd = MergeOk
        /\ ex[e].tk \notin faulted
        /\ tickets[ex[e].tk].state = "merged"

\* C7: mergePR is entered, and the merge command run, only in an invocation
\* whose verifier answered passed.  An invocation whose verifier answered
\* anything else, with no collaborator raising on the ticket, ends with the
\* ticket sentinel_failed, the sentinel_failed event carrying the serialized
\* verifier result, and no merge attempted.
C7_MergeOnlyAfterPass ==
    \A e \in Execs :
        /\ ex[e].mergePR => ex[e].status = "passed"
        /\ ex[e].cmd # NotRun => ex[e].mergePR
        /\ ( /\ ex[e].pc = "done"
             /\ ex[e].status \notin {"none", "passed"}
             /\ ex[e].tk \notin faulted )
           => /\ tickets[ex[e].tk].state = "sentinel_failed"
              /\ LastEvent(ex[e].tk).type = "sentinel_failed"
              /\ LastEvent(ex[e].tk).payload = <<"{status:", ex[e].status, "}">>
              /\ ~ex[e].mergePR

C7_Witness ==
    \E e \in Execs :
        /\ ex[e].pc = "done"
        /\ ex[e].status = "error"
        /\ ex[e].tk \notin faulted
        /\ tickets[ex[e].tk].state = "sentinel_failed"

Candidates == { t \in Tickets : IsReviewCandidate(tickets[t]) }
Listed(rows) == { rows[i] : i \in 1..Len(rows) }

\* the rows one cycle lists
C8_OldestFirstStep ==
    (lpc = "idle" /\ lpc' = "listed") =>
        /\ Candidates # {} => reviewTickets' # <<>>
        /\ \A t \in Candidates \ Listed(reviewTickets') :
              \A u \in Listed(reviewTickets') :
                  tickets[u].updated_at[1] <= tickets[t].updated_at[1]

C9_ListBound ==
    lpc = "listed" => Len(reviewTickets) <= Max(1, available - dispatched)

\* the invocations launched by one step
C9_LaunchStep ==
    /\ launched' - launched <=
          IF lpc = "listed" THEN Max(1, available - dispatched) ELSE 0
    /\ Cardinality({ e \in Execs : ex[e].pc = "idle" /\ ex'[e].pc # "idle" })
          = launched' - launched

\* C9: per-cycle capacity.  The rows a cycle lists, and the invocations it
\* launches, number at most max(1, available - dispatched), with dispatched
\* as it stands when review polling starts; with no capacity left that is one.
C9_CycleCapacity == [](C9_ListBound) /\ [][C9_LaunchStep]_vars

\* no capacity is left, two tickets wait, one is listed
C9_Witness ==
    /\ lpc = "listed"
    /\ available - dispatched <= 0
    /\ Len(reviewTickets) = 1
    /\ Cardinality(Candidates) > 1

\* a step taken with the flag set
C10_NoLaunchStep ==
    shuttingDown =>
        /\ shuttingDown'
        /\ launched' = launched
        /\ \A e \in Execs : ex[e].pc = "idle" => ex'[e].pc = "idle"

\* C10: shutdown.  Once shuttingDown is set it stays set and no invocation
\* is launched any more, so no new claim is sent; every invocation in flight
\* when the flag is set still runs to its end.
C10_ShutdownDrains ==
    /\ [][C10_NoLaunchStep]_vars
    /\ \A e \in Execs :
          (shuttingDown /\ InFlight(e)) ~> (ex[e].pc \in {"done", "rejected"})

\* the flag was set while rows were listed and a review was in flight, and
\* that review has since made its terminal transition
C10_Witness ==
    /\ shuttingDown
    /\ lpc = "idle"
    /\ launched < MaxExec
    /\ Candidates # {}
    /\ \E e \in Execs :
          /\ ex[e].pc = "done"
          /\ ex[e].won
          /\ tickets[ex[e].tk].state \in Terminal

\* ------------------------------------------------ claims on the patch engine
FooToBar == [search |-> Some(<<"foo">>), replace |-> Some(<<"bar">>)]
BarToBaz == [search |-> Some(<<"bar">>), replace |-> Some(<<"baz">>)]

\* the content that the patches of list l leave, applied one after the other
\* starting from content c
RECURSIVE PatchesInOrder(_, _)
PatchesInOrder(l, c) ==
    IF l = <<>> THEN c
    ELSE LET before == PatchesInOrder(SubSeq(l, 1, Len(l) - 1), c)
             p == l[Len(l)]
         IN  IF IsInvalidPatch(p) \/ ~Includes(before, p.search[1])
             THEN before
             ELSE Replace(before, p.search[1], p.replace[1])

\* C11: the patches of a modify edit are applied in list order, each against
\* the content left by the patches before it: after i patches the content in
\* memory is what the first i patches leave, one after the other, of the file
\* as read.  On content foo the list [foo -> bar, bar -> baz] leaves baz and
\* the reversed list leaves bar.
C11_PatchesInOrder ==
    wf.pc = "patches" =>
        /\ wf.fileContent =
              PatchesInOrder(SubSeq(wf.file.patches[1], 1, wf.i), wf.original)
        /\ ( /\ wf.original = <<"foo">>
             /\ wf.i = 2
             /\ wf.file.patches[1] = <<FooToBar, BarToBaz>> )
           => wf.fileContent = <<"baz">>
        /\ ( /\ wf.original = <<"foo">>
             /\ wf.i = 2
             /\ wf.file.patches[1] = <<BarToBaz, FooToBar>> )
           => wf.fileContent = <<"bar">>

\* both patches of [foo -> bar, bar -> baz] were applied to foo
C11_Witness ==
    /\ wf.pc = "patches"
    /\ wf.original = <<"foo">>
    /\ wf.i = 2
    /\ wf.patchesApplied = 2
    /\ wf.file.patches[1] = <<FooToBar, BarToBaz>>
    /\ wf.fileContent = <<"baz">>

\* the entries of a sequence
Range(s) == { s[k] : k \in 1..Len(s) }

\* no patch of list l can be applied to content c: each is invalid or
\* searches for text that c does not hold
NoneApplies(l, c) ==
    \A k \in 1..Len(l) : IsInvalidPatch(l[k]) \/ ~Includes(c, l[k].search[1])

\* the end of the patch loop of a modify edit none of whose patches applies
C12_ZeroApplyStep ==
    ( /\ wf.pc = "patches"
      /\ wf'.pc = "files"
      /\ NoneApplies(wf.file.patches[1], wf.original) )
    => /\ wf.patchesApplied = 0
       /\ fsFiles' = fsFiles
       /\ fsFiles'[wf.file.path] = Some(wf.original)
       /\ fsDirs' = fsDirs
       /\ wf'.written = wf.written
       /\ Log("error", "No patches applied to file", wf.file.path) \in wlog'

\* C12: zero-apply guard.  When every patch of a modify edit is invalid or
\* searches for text the content does not hold, no patch is counted, the
\* file keeps the content that was read, nothing else in the checkout
\* changes, and the edit adds no path to written.
C12_ZeroApplyGuard == [][C12_ZeroApplyStep]_vars

\* a modify edit whose search text was absent has ended: the file is as it
\* was and the call has returned without its path
C12_Witness ==
    \E p \in Paths :
        /\ wf.pc = "returned"
        /\ Log("warn", "Patch search text not found", p) \in wlog
        /\ Log("error", "No patches applied to file", p) \in wlog
        /\ ExistsSync(fsFiles, p)
        /\ p \notin Range(wf.written)

\* --------------------------------------------- claims on the truncation
\* the returned text keeps the first and last 150 of 1000 lines around one
\* marker that states omitted lines
KeepsHeadAndTail(text, omitted) ==
    /\ Len(text) = 303
    /\ \A k \in 1..150 : text[k] = [kind |-> "line", n |-> k]
    /\ text[151] = Blank
    /\ text[152] = [kind |-> "marker", n |-> omitted]
    /\ text[153] = Blank
    /\ \A k \in 1..150 : text[153 + k] = [kind |-> "line", n |-> 850 + k]
    /\ Cardinality({ k \in 1..Len(text) : text[k].kind = "marker" }) = 1

\* the call of the claim has returned
ThousandLinesFetched ==
    /\ ff.pc = "returned"
    /\ ff.exists
    /\ ff.lines = 1000
    /\ ff.maxLines = 300

\* C13 as stated: a 1000-line file truncated at a 300-line budget keeps the
\* first 150 and the last 150 lines plus one marker, and the marker states
\* that 850 lines were omitted.
C13_MarkerStates850 ==
    ThousandLinesFetched => KeepsHeadAndTail(ff.result[1], 850)

\* C13, amended: a 1000-line file truncated at a 300-line budget keeps the
\* first 150 and the last 150 lines plus one marker, and the marker states
\* that 700 lines were omitted, which is the number of lines left out.
C13_MarkerStates700 ==
    ThousandLinesFetched => KeepsHeadAndTail(ff.result[1], 700)

C13_Witness ==
    /\ ThousandLinesFetched
    /\ ff.result # NULL
    /\ Len(ff.result[1]) < 1000

\* content s with its first occurrence of p replaced by the text r as it is
ReplaceFirstVerbatim(s, p, r) ==
    LET i == IndexOf(s, p) IN
    SubSeq(s, 1, i) \o r \o SubSeq(s, i + Len(p) + 1, Len(s))

\* the patch that the patch loop is about to look at
CurrentPatch == wf.file.patches[1][wf.i + 1]

\* C14: replace-first.  A valid patch whose search text occurs more than
\* once in the current content is applied and counted, and leaves the
\* current content with its first occurrence replaced by the replace text
\* taken verbatim, every later occurrence and all other text unchanged.
C14_ReplaceFirstVerbatim ==
    [][ ( /\ wf.pc = "patches"
          /\ wf'.pc = "patches"
          /\ ~IsInvalidPatch(CurrentPatch)
          /\ Occurrences(wf.fileContent, CurrentPatch.search[1]) > 1 )
        => /\ wf'.patchesApplied = wf.patchesApplied + 1
           /\ wf'.fileContent =
                 ReplaceFirstVerbatim(wf.fileContent, CurrentPatch.search[1],
                                      CurrentPatch.replace[1]) ]_vars

\* the record of files last taken
LastTaken(w) == w.order[Len(w.order)]

\* C15: a modify edit, with or without a patches array, whose target does
\* not exist is skipped: taking it creates no file and no directory, leaves
\* the checkout as it was and adds no path to written.
C15_ModifyOfMissingFileSkipped ==
    [][ ( /\ Len(wf'.order) = Len(wf.order) + 1
          /\ LastTaken(wf').action = "modify"
          /\ ~ExistsSync(fsFiles, LastTaken(wf').path) )
        => /\ fsFiles' = fsFiles
           /\ fsDirs' = fsDirs
           /\ wf'.written = wf.written ]_vars

\* ------------------------------------------- claims on the review steps
\* the verifier was called in invocation e, or mergePR entered, or the merge
\* command run
ReviewStepRun(e) ==
    \/ ex[e].pc \in {"verify", "sm_update", "sm_emit"}
    \/ ex[e].status # "none"
    \/ ex[e].mergePR
    \/ ex[e].cmd # NotRun

\* C16: a claimed ticket without a PR URL.  The invocation never calls the
\* verifier and never enters mergePR or runs the merge command; it calls
\* setSentinelFailed with the reason 'No PR URL found'; and when it has
\* ended, with no collaborator raising on the ticket, the ticket is
\* sentinel_failed, the sentinel_failed event carries that reason, and the
\* ticket is no review candidate any more and was claimed only once.
C16_NoPrUrlFailsFast ==
    \A e \in Execs :
        (ex[e].claim = "record" /\ ex[e].prUrl = NoPrUrl) =>
            /\ ~ReviewStepRun(e)
            /\ ex[e].pc \in {"repo", "sf_update", "sf_emit", "done", "rejected"}
            /\ ex[e].tk \notin faulted =>
                  /\ ex[e].pc \in {"sf_update", "sf_emit"} =>
                        ex[e].reason = <<"No", "PR", "URL", "found">>
                  /\ ex[e].pc = "done" =>
                        /\ tickets[ex[e].tk].state = "sentinel_failed"
                        /\ LastEvent(ex[e].tk).type = "sentinel_failed"
                        /\ LastEvent(ex[e].tk).payload = <<"No", "PR", "URL", "found">>
                        /\ <<ex[e].tk, "sentinel_failed">> \in notified
                        /\ ~IsReviewCandidate(tickets[ex[e].tk])
                        /\ Cardinality(Winners(ex[e].tk)) = 1

C16_Witness ==
    \E e \in Execs :
        /\ ex[e].claim = "record"
        /\ ex[e].prUrl = NoPrUrl
        /\ ex[e].pc = "done"
        /\ ex[e].tk \notin faulted
        /\ tickets[ex[e].tk].state = "sentinel_failed"

\* the merge errors that do not say the PR has already been merged
MergeFailures == MergeErrors \ AlreadyMergedReports

\* mergePR of invocation e was entered with the PR URL .../issues/42, which
\* is not of the form <host>/<owner>/<repo>/pull/<number>
BadUrlFailure(e) == ex[e].mergePR /\ ex[e].prUrl = BadPrUrl

\* the message of the error that mergePR of invocation e threw
MergeErrorMessage(e) ==
    IF BadUrlFailure(e) THEN <<"Invalid", "PR", "URL:">> \o ex[e].prUrl
    ELSE ex[e].cmd.message

\* C17: merge failures.  An invocation whose PR URL does not match the
\* pattern never runs the merge command; an invocation whose mergePR failed
\* on the URL or on a merge error other than 'already merged' never leaves
\* the ticket merged; and, with no collaborator raising on the ticket, it
\* goes on to setSentinelFailed with a reason that embeds the error message,
\* and ends with the ticket sentinel_failed and that reason in the event.
C17_MergeFailureEndsFailed ==
    \A e \in Execs :
        /\ BadUrlFailure(e) => ex[e].cmd = NotRun
        /\ (BadUrlFailure(e) \/ ex[e].cmd \in MergeFailures) =>
              /\ tickets[ex[e].tk].state # "merged"
              /\ ex[e].tk \notin faulted =>
                    /\ ex[e].pc \in {"sf_update", "sf_emit", "done"}
                    /\ ex[e].pc \in {"sf_update", "sf_emit"} =>
                          /\ ex[e].reason = <<"Merge", "failed:">> \o MergeErrorMessage(e)
                          /\ Includes(ex[e].reason, MergeErrorMessage(e))
                    /\ ex[e].pc \in {"sf_emit", "done"} =>
                          tickets[ex[e].tk].state = "sentinel_failed"
                    /\ ex[e].pc = "done" =>
                          /\ LastEvent(ex[e].tk).type = "sentinel_failed"
                          /\ Includes(LastEvent(ex[e].tk).payload, MergeErrorMessage(e))

\* one review has ended on a malformed PR URL, another on a failed merge
C17_Witness ==
    \E e1, e2 \in Execs :
        /\ BadUrlFailure(e1)
        /\ ex[e1].pc = "done"
        /\ ex[e1].tk \notin faulted
        /\ tickets[ex[e1].tk].state = "sentinel_failed"
        /\ ex[e2].cmd \in MergeFailures
        /\ ex[e2].pc = "done"
        /\ ex[e2].tk \notin faulted
        /\ tickets[ex[e2].tk].state = "sentinel_failed"

\* C18: whenever a notification, an event or a log line for a transition to
\* merged or sentinel_failed exists, the store holds that state for the
\* ticket (the row was persisted first and nothing undid it).
C18_StoreHoldsReportedState ==
    \A t \in Tickets : \A s \in Terminal :
        ( \/ <<t, s>> \in notified
          \/ <<t, s>> \in logged
          \/ \E k \in 1..Len(events[t]) : events[t][k].to_state = s )
        => tickets[t].state = s

\* the log of ticket t holds the sentinel_started event
Started(t) ==
    \E k \in 1..Len(events[t]) :
        events[t][k] = Event("sentinel_started", "in_review", "reviewing", <<>>)

\* a step of the claim of invocation e that does not return the record
C19_FailedClaimStep ==
    \A e \in Execs :
        ( /\ ex[e].pc \in {"claim", "claim_emit"}
          /\ ex'[e] # ex[e]
          /\ ex'[e].claim # "record" )
        => events' = events

\* C19: whenever an invocation got the claimed record, and so whenever it
\* has called the verifier, entered mergePR, run the merge command or called
\* a transition operation from inside the review, the sentinel_started event
\* (in_review to reviewing) of its ticket is in the log; a claim that does
\* not return the record appends no event.
C19_StartedBeforeReview ==
    /\ [](\A e \in Execs :
            /\ ReviewStepRun(e) => ex[e].claim = "record"
            /\ ex[e].ctx \in {"nopr", "verdict", "mergeErr", "try", "catch"}
                  => ex[e].claim = "record"
            /\ ex[e].claim = "record" => Started(ex[e].tk))
    /\ [][C19_FailedClaimStep]_vars

\* the merge command was run for a ticket, and a second call lost the claim
C19_Witness ==
    \E e1, e2 \in Execs :
        /\ ex[e1].cmd # NotRun
        /\ Started(ex[e1].tk)
        /\ ex[e2].claim = "null"
        /\ ex[e2].tk = ex[e1].tk
        /\ Len(events[ex[e1].tk]) = 1

\* C20: every event in a ticket's log records the transition that was made:
\* its from_state is the state the ticket held before it, which is in_review
\* for the first event and the to_state of the event before it for the
\* others.
C20_EventsMatchTransitions ==
    \A t \in Tickets : \A k \in 1..Len(events[t]) :
        events[t][k].from_state =
            IF k = 1 THEN "in_review" ELSE events[t][k - 1].to_state

\* a patch without a search field, with an empty search string, or without
\* a replace value
LacksSearchOrReplace(p) ==
    \/ p.search = Undefined
    \/ p.search = <<<<>>>>
    \/ p.replace = Undefined

\* one turn of the patch loop
C21_SkipStep ==
    (wf.pc = "patches" /\ wf.i < Len(wf.file.patches[1])) =>
        /\ wf'.pc = "patches"
        /\ wf'.i = wf.i + 1
        /\ wf'.file = wf.file
        /\ fsFiles' = fsFiles
        /\ IF \/ LacksSearchOrReplace(CurrentPatch)
              \/ ~Includes(wf.fileContent, CurrentPatch.search[1])
           THEN /\ wf'.fileContent = wf.fileContent
                /\ wf'.patchesApplied = wf.patchesApplied
           ELSE wf'.patchesApplied = wf.patchesApplied + 1

\* C21: a patch with a missing or empty search or an undefined replace is
\* skipped: the content and the count of applied patches stay as they are.
\* Neither it nor a patch whose search text is not found ends the loop: the
\* next patch of the list is looked at, and is applied and counted if it is
\* valid and its text is found.
C21_InvalidPatchSkipped == [][C21_SkipStep]_vars

\* a patch was applied after an invalid one was skipped
C21_Witness ==
    /\ wf.pc = "patches"
    /\ wf.i = 2
    /\ wf.patchesApplied = 1
    /\ LacksSearchOrReplace(wf.file.patches[1][1])
    /\ wf.fileContent # wf.original
    /\ Log("warn", "Invalid patch format", wf.file.path) \in wlog

\* a record of files is taken and its turn ends in the same step
TurnWithoutPatchLoop ==
    /\ Len(wf'.order) = Len(wf.order) + 1
    /\ wf'.pc = "files"

\* the patch loop of a modify edit ends
TurnAfterPatchLoop == wf.pc = "patches" /\ wf'.pc = "files"

\* what one step of writeFiles does to written and to the checkout
C22_WrittenStep ==
    /\ TurnWithoutPatchLoop =>
          IF LastTaken(wf').action = "create"
          THEN /\ wf'.written = Append(wf.written, LastTaken(wf').path)
               /\ ExistsSync(fsFiles', LastTaken(wf').path)
          ELSE /\ wf'.written = wf.written
               /\ fsFiles' = fsFiles
    /\ TurnAfterPatchLoop =>
          IF wf.patchesApplied > 0
          THEN /\ wf'.written = Append(wf.written, wf.file.path)
               /\ fsFiles'[wf.file.path] =
                     Some(PatchesInOrder(wf.file.patches[1], wf.original))
          ELSE /\ wf'.written = wf.written
               /\ fsFiles' = fsFiles
    /\ (~TurnWithoutPatchLoop /\ ~TurnAfterPatchLoop /\ wf'.pc # "threw") =>
          /\ wf'.written = wf.written
          /\ fsFiles' = fsFiles

\* C22: writeFiles appends to written, in the order of the input, the path
\* of every create edit and of every modify edit with at least one applied
\* patch, whose file then holds the content left by all its patches, and the
\* path of no other record; a modify edit that is skipped or has no applied
\* patch leaves its file as it was.
C22_ReturnsWrittenPaths == [][C22_WrittenStep]_vars

\* the context a rag_context value stands for, if it stands for one: the
\* structured data itself, or the context its text is the serialised form of
ContextOf(rag) ==
    IF rag.type = "object" THEN rag.ctx
    ELSE IF rag.type = "string" /\ \E c \in Contexts : rag.text = StringifyContext(c)
    THEN Some(CHOOSE c \in Contexts : rag.text = StringifyContext(c))
    ELSE NULL

\* the field is missing or an empty list
NoTargets(v) == v = Undefined \/ v = Some(Arr(<<>>))

\* rag_context is absent, is not the text of an object, or yields two empty lists
NoListsAvailable ==
    \/ ContextOf(bp.rag_context) = NULL
    \/ /\ NoTargets(ContextOf(bp.rag_context)[1].files_to_create)
       /\ NoTargets(ContextOf(bp.rag_context)[1].files_to_modify)

\* C23: when rag_context is absent, fails to parse or yields empty
\* files_to_create and files_to_modify lists, the create list is the list of
\* file hints and no modify section is rendered; when the hints are empty too
\* the files section is the generic instruction; a parse failure never raises
\* out of the assembly of the prompt.
C23_FallsBackToHints ==
    NoListsAvailable =>
        /\ bp.pc # "threw"
        /\ bp.pc \in {"render", "done"} =>
              /\ bp.filesToCreate = Arr(bp.fileHints)
              /\ bp.filesToModify = Arr(<<>>)
        /\ bp.pc = "done" =>
              /\ ~bp.hasModifications
              /\ \A k \in 1..Len(bp.filesSection) :
                    bp.filesSection[k] \notin {ModifyHeading, ContentHeading}
              /\ bp.fileHints = <<>> => bp.filesSection = <<GenericInstruction>>
              /\ bp.fileHints # <<>> =>
                    bp.filesSection =
                        <<CreateHeading>> \o Bullets(bp.fileHints) \o <<EmptyLine>>

\* a text that is not JSON was met, the warning was logged, and the section
\* lists the hints as files to create
C23_Witness ==
    /\ bp.pc = "done"
    /\ bp.rag_context.type = "string"
    /\ bp.rag_context.text = <<"not", "json">>
    /\ bp.warned
    /\ bp.fileHints = <<"a.js">>
    /\ bp.filesSection = <<CreateHeading, <<"- ", "a.js">>, EmptyLine>>

\* the claim call of the invocation is over and did not return a record: it
\* returned null, or it raised
DidNotWin(e) ==
    /\ ex[e].pc \notin {"idle", "claim", "claim_emit"}
    /\ ex[e].claim # "record"

\* a step of an invocation that did not win the claim changes no ticket, adds
\* no event, and calls neither the verifier nor mergePR
C24_LoserStep ==
    \A e \in Execs :
        (DidNotWin(e) /\ ex'[e] # ex[e]) =>
            /\ tickets' = tickets
            /\ events' = events
            /\ ex'[e].status = "none"
            /\ ~ex'[e].mergePR
            /\ ex'[e].cmd = NotRun

\* C24: an execution that did not win the claim (the claim returned null, or
\* the claim call raised) never changes the ticket's state, never appends an
\* event and never invokes the verifier or the merge; only the winner moves
\* the ticket out of reviewing.
C24_LoserChangesNothing == [][C24_LoserStep]_vars

\* C25: in every reachable state a ticket's vm_id is the reserved marker -1
\* if and only if its state is reviewing: no in_review, merged or
\* sentinel_failed ticket carries the marker, every reviewing ticket does.
C25_MarkerIffReviewing ==
    \A t \in Tickets : tickets[t].vm_id = <<-1>> <=> tickets[t].state = "reviewing"

\* one ticket is under review with the marker bound while another has
\* reached merged with the marker cleared
C25_Witness ==
    \E t, u \in Tickets :
        /\ tickets[t].state = "reviewing" /\ tickets[t].vm_id = <<-1>>
        /\ tickets[u].state = "merged" /\ tickets[u].vm_id = NULL
        /\ \E k \in 1..Len(events[u]) : events[u][k].type = "sentinel_started"

\* the positions of a returned text that hold an original line, and those
\* that hold a truncation marker
KeptLines(text) == { k \in 1..Len(text) : text[k].kind = "line" }
Markers(text) == { k \in 1..Len(text) : text[k].kind = "marker" }

\* C26: for every budget of at least 1, a file with more lines than the
\* budget is returned with at most budget of its lines, and its marker states
\* the number of lines not kept (the line count minus the head and tail lines
\* kept); a file within the budget is returned unchanged, without a marker.
C26_MarkerCountsOmitted ==
    (ff.pc = "returned" /\ ff.exists /\ ff.maxLines >= 1) =>
        LET text == ff.result[1] IN
        IF ff.lines > ff.maxLines
        THEN /\ Cardinality(KeptLines(text)) <= ff.maxLines
             /\ Cardinality(Markers(text)) = 1
             /\ \A k \in Markers(text) :
                    text[k].n = ff.lines - Cardinality(KeptLines(text))
        ELSE /\ text = [k \in 1..ff.lines |-> [kind |-> "line", n |-> k]]
             /\ Markers(text) = {}

\* after the step the backup file, once written, holds the engine as it was
\* before the first run
BackupHoldsOriginal == ep'.backup # NoFile => ep'.backup = <<ep.original>>

\* a step of a run on an engine that an earlier run has changed leaves the
\* engine file as it is
PatchedEngineKept == ep.engine # ep.original => ep'.engine = ep.engine

\* C27: after any number of runs of apply_patch the backup file
\* engine.js.bak-sentinel holds the original, unpatched content of the engine,
\* and a run on an already patched engine leaves the engine file unchanged.
C27_BackupKeepsOriginal == [][BackupHoldsOriginal /\ PatchedEngineKept]_vars
====
